---- MODULE Spec2Model ----
(***************************************************************************)
(* Model of the Mirror API (src/app.py): a Flask application with five     *)
(* routes and a 404 error handler.  Text (bodies, query strings, header    *)
(* values) is a sequence of one-character strings, so that parsing and     *)
(* stringification are computed and not assumed.                           *)
(*                                                                         *)
(* The wall-clock timestamp and the fixed descriptive strings that the     *)
(* handlers put in their payloads are not modelled: they are not derived   *)
(* from the request and no property below speaks about them.               *)
(***************************************************************************)
EXTENDS Integers, Sequences, FiniteSets, TLC

VARIABLES ctx

vars == <<ctx>>

(***************************************************************************)
(* Bounds of the model.                                                    *)
(***************************************************************************)
\* number of workers that handle requests concurrently in SpecConc
NumWorkers == 2
\* largest number of elements of the generated JSON arrays, beyond the array
\* whose stringification first passes the sample limit
ExtraElems == 1

\* src/app.py:82, the length of json_sample before the ellipsis
SampleLimit == 100

(***************************************************************************)
(* Text helpers.                                                           *)
(***************************************************************************)
Rep(c, n) == [i \in 1..n |-> c]

Take(s, n) == SubSeq(s, 1, IF Len(s) < n THEN Len(s) ELSE n)

Digits == <<"0", "1", "2", "3", "4", "5", "6", "7", "8", "9">>

IsDigit(c) == \E d \in 1..10 : Digits[d] = c

DigitVal(c) == (CHOOSE d \in 1..10 : Digits[d] = c) - 1

RECURSIVE IntToText(_)
IntToText(n) == IF n < 10 THEN <<Digits[n + 1]>>
                ELSE IntToText(n \div 10) \o <<Digits[(n % 10) + 1]>>

(***************************************************************************)
(* JSON values, as json.loads produces them (Python objects).              *)
(***************************************************************************)
JNull == [t |-> "null"]
JBool(b) == [t |-> "bool", b |-> b]
JNum(n) == [t |-> "num", n |-> n]
JStr(s) == [t |-> "str", s |-> s]
JArr(a) == [t |-> "arr", a |-> a]
\* an object is the sequence of its <<key, value>> pairs, keys unique, in
\* insertion order (a Python dict)
JObj(o) == [t |-> "obj", o |-> o]

\* d[k] = v on a Python dict: a key already present keeps its position
DictSet(o, k, v) ==
    IF \E i \in 1..Len(o) : o[i][1] = k
    THEN [i \in 1..Len(o) |-> IF o[i][1] = k THEN <<k, v>> ELSE o[i]]
    ELSE Append(o, <<k, v>>)

\* Python truthiness, as `if json_data:` and `x or {}` evaluate it
Truthy(v) ==
    CASE v.t = "null" -> FALSE
      [] v.t = "bool" -> v.b
      [] v.t = "num"  -> v.n # 0
      [] v.t = "str"  -> Len(v.s) > 0
      [] v.t = "arr"  -> Len(v.a) > 0
      [] v.t = "obj"  -> Len(v.o) > 0

(***************************************************************************)
(* json.loads on the JSON subset of the model: null, true, false,          *)
(* non-negative integers, strings without escapes, arrays, objects;        *)
(* blanks are skipped around values.                                       *)
(***************************************************************************)
Fail == [ok |-> FALSE, v |-> JNull, next |-> 0]

Ok(v, next) == [ok |-> TRUE, v |-> v, next |-> next]

\* the least element of a non-empty set of positions
Least(S) == CHOOSE j \in S : \A k \in S : j <= k

\* the first position at or after i that holds no blank, Len(s) + 1 at the end
SkipWs(s, i) == Least({j \in i..Len(s) : s[j] # " "} \cup {Len(s) + 1})

StartsAt(s, i, w) ==
    /\ i + Len(w) - 1 <= Len(s)
    /\ \A k \in 1..Len(w) : s[i + k - 1] = w[k]

\* the first position at or after i that holds no digit
DigitsEnd(s, i) == Least({j \in i..Len(s) : ~IsDigit(s[j])} \cup {Len(s) + 1})

RECURSIVE TextToInt(_)
TextToInt(s) == IF Len(s) = 0 THEN 0
                ELSE 10 * TextToInt(SubSeq(s, 1, Len(s) - 1)) + DigitVal(s[Len(s)])

\* index of the closing quote of a string whose contents start at i, or 0
QuoteEnd(s, i) ==
    LET quotes == {j \in i..Len(s) : s[j] = "\""}
    IN  IF quotes = {} THEN 0 ELSE Least(quotes)

ParseString(s, i) ==
    IF i <= Len(s) /\ s[i] = "\""
    THEN LET e == QuoteEnd(s, i + 1)
         IN  IF e = 0 THEN Fail ELSE Ok(JStr(SubSeq(s, i + 1, e - 1)), e + 1)
    ELSE Fail

ParseNumber(s, i) ==
    LET e == DigitsEnd(s, i)
    IN  IF e = i THEN Fail
        ELSE IF s[i] = "0" /\ e > i + 1 THEN Ok(JNum(0), i + 1)
        ELSE Ok(JNum(TextToInt(SubSeq(s, i, e - 1))), e)

RECURSIVE ParseValue(_, _)
RECURSIVE ParseElems(_, _, _)
RECURSIVE ParseMembers(_, _, _)

\* the elements of an array after "[" or ",": i is at the next element
ParseElems(s, i, acc) ==
    LET r == ParseValue(s, i)
    IN  IF ~r.ok THEN Fail
        ELSE LET j == SkipWs(s, r.next)
             IN  IF j > Len(s) THEN Fail
                 ELSE IF s[j] = "]" THEN Ok(JArr(Append(acc, r.v)), j + 1)
                 ELSE IF s[j] = "," THEN ParseElems(s, j + 1, Append(acc, r.v))
                 ELSE Fail

\* the members of an object after "{" or ",": i is at the next key
ParseMembers(s, i, acc) ==
    LET k == ParseString(s, SkipWs(s, i))
    IN  IF ~k.ok THEN Fail
        ELSE LET c == SkipWs(s, k.next)
             IN  IF c > Len(s) \/ s[c] # ":" THEN Fail
                 ELSE LET r == ParseValue(s, c + 1)
                      IN  IF ~r.ok THEN Fail
                          ELSE LET j == SkipWs(s, r.next)
                                   o == DictSet(acc, k.v.s, r.v)
                               IN  IF j > Len(s) THEN Fail
                                   ELSE IF s[j] = "}" THEN Ok(JObj(o), j + 1)
                                   ELSE IF s[j] = "," THEN ParseMembers(s, j + 1, o)
                                   ELSE Fail

ParseValue(s, i0) ==
    LET i == SkipWs(s, i0)
    IN  IF i > Len(s) THEN Fail
        ELSE IF StartsAt(s, i, <<"n", "u", "l", "l">>) THEN Ok(JNull, i + 4)
        ELSE IF StartsAt(s, i, <<"t", "r", "u", "e">>) THEN Ok(JBool(TRUE), i + 4)
        ELSE IF StartsAt(s, i, <<"f", "a", "l", "s", "e">>) THEN Ok(JBool(FALSE), i + 5)
        ELSE IF s[i] = "\"" THEN ParseString(s, i)
        ELSE IF IsDigit(s[i]) THEN ParseNumber(s, i)
        ELSE IF s[i] = "["
             THEN LET j == SkipWs(s, i + 1)
                  IN  IF j <= Len(s) /\ s[j] = "]" THEN Ok(JArr(<<>>), j + 1)
                      ELSE ParseElems(s, i + 1, <<>>)
        ELSE IF s[i] = "{"
             THEN LET j == SkipWs(s, i + 1)
                  IN  IF j <= Len(s) /\ s[j] = "}" THEN Ok(JObj(<<>>), j + 1)
                      ELSE ParseMembers(s, i + 1, <<>>)
        ELSE Fail

\* json.loads(data): the whole text must be one value
JsonLoads(s) ==
    LET r == ParseValue(s, 1)
    IN  IF r.ok /\ SkipWs(s, r.next) = Len(s) + 1
        THEN [ok |-> TRUE, v |-> r.v]
        ELSE [ok |-> FALSE, v |-> JNull]

(***************************************************************************)
(* str() and repr() of a parsed value (Python), as line 82 stringifies it. *)
(***************************************************************************)
RECURSIVE PyRepr(_)
RECURSIVE JoinRepr(_, _)
RECURSIVE JoinItems(_, _)

JoinRepr(a, i) ==
    IF i > Len(a) THEN <<>>
    ELSE (IF i > 1 THEN <<",", " ">> ELSE <<>>) \o PyRepr(a[i]) \o JoinRepr(a, i + 1)

JoinItems(o, i) ==
    IF i > Len(o) THEN <<>>
    ELSE (IF i > 1 THEN <<",", " ">> ELSE <<>>)
         \o <<"'">> \o o[i][1] \o <<"'", ":", " ">> \o PyRepr(o[i][2])
         \o JoinItems(o, i + 1)

PyRepr(v) ==
    CASE v.t = "null" -> <<"N", "o", "n", "e">>
      [] v.t = "bool" -> IF v.b THEN <<"T", "r", "u", "e">>
                         ELSE <<"F", "a", "l", "s", "e">>
      [] v.t = "num"  -> IntToText(v.n)
      [] v.t = "str"  -> <<"'">> \o v.s \o <<"'">>
      [] v.t = "arr"  -> <<"[">> \o JoinRepr(v.a, 1) \o <<"]">>
      [] v.t = "obj"  -> <<"{">> \o JoinItems(v.o, 1) \o <<"}">>

PyStr(v) == IF v.t = "str" THEN v.s ELSE PyRepr(v)

(***************************************************************************)
(* The request object (flask.request, line 6), as the handlers read it.    *)
(* A request is a record                                                   *)
(*   [method, path, query_string, headers, body, remote_addr]              *)
(* path is a sequence of segments and "/" separators; headers maps the     *)
(* names of the headers that were sent to their values.                    *)
(***************************************************************************)
\* position of the first c in s at or after i, Len(s) + 1 when there is none
IndexFrom(s, c, i) == Least({j \in i..Len(s) : s[j] = c} \cup {Len(s) + 1})

\* key=value: the key is the text before the first "=", the value the rest
PairOf(seg) ==
    LET e == IndexFrom(seg, "=", 1)
    IN  <<SubSeq(seg, 1, e - 1), SubSeq(seg, e + 1, Len(seg))>>

RECURSIVE ParsePairs(_, _, _)
\* the key/value pairs of a query string, an urlencoded body ("&") or a
\* Cookie header (";"), in the order sent; empty segments are skipped
ParsePairs(s, sep, i0) ==
    LET i == SkipWs(s, i0)
    IN  IF i > Len(s) THEN <<>>
        ELSE LET e == IndexFrom(s, sep, i)
                 seg == SubSeq(s, i, e - 1)
             IN  (IF Len(seg) = 0 THEN <<>> ELSE <<PairOf(seg)>>)
                 \o ParsePairs(s, sep, e + 1)

\* a MultiDict is the sequence of its <<key, value>> pairs
MDKeys(md) == {md[i][1] : i \in 1..Len(md)}

\* len(multidict): the number of distinct keys
MDLen(md) == Cardinality(MDKeys(md))

\* dict(multidict): every key with the first value sent for it
MDToDict(md) ==
    [k \in MDKeys(md) |->
        md[CHOOSE i \in 1..Len(md) :
              /\ md[i][1] = k
              /\ \A j \in 1..(i - 1) : md[j][1] # k][2]]

\* request.headers.get(name): None when the header was not sent
None == [some |-> FALSE, v |-> <<>>]

Some(v) == [some |-> TRUE, v |-> v]

HeadersGet(req, name) ==
    IF name \in DOMAIN req.headers THEN Some(req.headers[name]) ELSE None

\* request.mimetype: the content type without its parameters
Mimetype(req) ==
    IF "Content-Type" \in DOMAIN req.headers
    THEN LET ct == req.headers["Content-Type"]
         IN  SubSeq(ct, 1, IndexFrom(ct, ";", 1) - 1)
    ELSE <<>>

\* request.is_json: application/json or application/*+json
IsJson(req) ==
    LET mt == Mimetype(req)
    IN  \/ mt = <<"application", "/", "json">>
        \/ /\ Len(mt) >= 4
           /\ mt[1] = "application" /\ mt[2] = "/"
           /\ mt[Len(mt) - 1] = "+" /\ mt[Len(mt)] = "json"

IsFormType(req) ==
    Mimetype(req) = <<"application", "/", "x-www-form-urlencoded">>

\* request.args
Args(req) == ParsePairs(req.query_string, "&", 1)

\* request.form: parsed from the body of an urlencoded request only
Form(req) == IF IsFormType(req) THEN ParsePairs(req.body, "&", 1) ELSE <<>>

\* request.cookies
Cookies(req) ==
    IF "Cookie" \in DOMAIN req.headers
    THEN ParsePairs(req.headers["Cookie"], ";", 1)
    ELSE <<>>

\* request.get_data(as_text=True), called after request.form in both
\* handlers: parsing the form has consumed the body stream
GetData(req) == IF IsFormType(req) THEN <<>> ELSE req.body

\* request.get_json(silent=True): None on a content type that is not JSON
\* and on a body that does not parse
GetJsonSilent(req) ==
    IF IsJson(req) /\ JsonLoads(GetData(req)).ok
    THEN Some(JsonLoads(GetData(req)).v)
    ELSE None

\* request.get_json(): raises BadRequest on a body that does not parse
GetJson(req) ==
    IF JsonLoads(GetData(req)).ok
    THEN [raised |-> FALSE, v |-> JsonLoads(GetData(req)).v, msg |-> <<>>]
    ELSE [raised |-> TRUE, v |-> JNull,
          msg |-> <<"400 Bad Request: Failed to decode JSON object">>]

\* request.host: the Host header, or the address the server is bound to
\* (lines 208-209) when the header was not sent
Host(req) ==
    IF "Host" \in DOMAIN req.headers THEN req.headers["Host"]
    ELSE <<"0.0.0.0", ":", "5000">>

\* request.url
Url(req) ==
    <<"http", "://">>
    \o Host(req)
    \o req.path
    \o (IF Len(req.query_string) > 0 THEN <<"?">> \o req.query_string ELSE <<>>)

\* the names request.headers iterates over: an empty Content-Type is not
\* listed, although get() returns it
HeaderNames(req) ==
    {n \in DOMAIN req.headers : ~(n = "Content-Type" /\ Len(req.headers[n]) = 0)}

\* request.full_path: the path and the query string, "?" always present
FullPath(req) == req.path \o <<"?">> \o req.query_string

\* request.user_agent.string: empty when the header was not sent
UserAgentString(req) ==
    IF "User-Agent" \in DOMAIN req.headers THEN req.headers["User-Agent"] ELSE <<>>

(***************************************************************************)
(* Routing: the rules the @app.route decorators register, and the match    *)
(* Flask makes before it calls a view function.                            *)
(***************************************************************************)
AllMethods == {"GET", "POST", "PUT", "DELETE", "PATCH", "OPTIONS", "HEAD"}

RuleAutomaticOptions(path, methods, endpoint) ==
    [path |-> path,
     methods |-> methods \cup (IF "GET" \in methods THEN {"HEAD"} ELSE {})
                         \cup {"OPTIONS"},
     automatic_options |-> TRUE,
     endpoint |-> endpoint]

Rule(path, methods, endpoint) ==
    [path |-> path,
     \* HEAD is added to a rule that allows GET, OPTIONS to every rule
     methods |-> methods \cup (IF "GET" \in methods THEN {"HEAD"} ELSE {})
                         \cup {"OPTIONS"},
     \* Flask answers OPTIONS itself unless the rule lists it
     automatic_options |-> "OPTIONS" \notin methods,
     endpoint |-> endpoint]

url_map ==
    { Rule(<<"/">>, {"GET"}, "api_documentation"),
      Rule(<<"/", "info">>, {"GET"}, "api_info"),
      Rule(<<"/", "mirror">>, AllMethods, "mirror_simple"),
      Rule(<<"/", "mirror", "/", "detail">>, AllMethods, "mirror_detail"),
      Rule(<<"/", "health">>, {"GET"}, "health_check") }

KnownPaths == {r.path : r \in url_map}

RECURSIVE MergeSlashes(_)
\* the path with every run of "/" replaced by one "/"
MergeSlashes(p) ==
    IF Len(p) < 2 THEN p
    ELSE IF p[1] = "/" /\ p[2] = "/" THEN MergeSlashes(Tail(p))
    ELSE <<p[1]>> \o MergeSlashes(Tail(p))

RuleFor(path) == CHOOSE r \in url_map : r.path = path

\* the outcome of matching a request against url_map
MatchAs404(req) ==
    IF req.path \in KnownPaths /\ req.method \in RuleFor(req.path).methods
    THEN IF RuleFor(req.path).automatic_options /\ req.method = "OPTIONS"
         THEN [kind |-> "options", endpoint |-> RuleFor(req.path).endpoint]
         ELSE [kind |-> "view", endpoint |-> RuleFor(req.path).endpoint]
    ELSE IF /\ req.path \notin KnownPaths
            /\ MergeSlashes(req.path) \in KnownPaths
            /\ req.method \in RuleFor(MergeSlashes(req.path)).methods
    THEN [kind |-> "redirect", endpoint |-> "none"]
    ELSE [kind |-> "not_found", endpoint |-> "not_found"]

\* the outcome of matching a request against url_map: the view function of
\* the rule with this exact path when the rule allows the method, 405 when it
\* does not; a path that matches a rule only once its repeated slashes are
\* merged is redirected to the merged path (Map.merge_slashes, on by
\* default); NotFound otherwise
Match(req) ==
    IF req.path \in KnownPaths
    THEN LET rule == RuleFor(req.path)
         IN  IF req.method \in rule.methods
             THEN IF rule.automatic_options /\ req.method = "OPTIONS"
                  THEN [kind |-> "options", endpoint |-> rule.endpoint]
                  ELSE [kind |-> "view", endpoint |-> rule.endpoint]
             ELSE [kind |-> "method_not_allowed", endpoint |-> "none"]
    ELSE IF MergeSlashes(req.path) \in KnownPaths
    THEN IF req.method \in RuleFor(MergeSlashes(req.path)).methods
         THEN [kind |-> "redirect", endpoint |-> "none"]
         ELSE [kind |-> "method_not_allowed", endpoint |-> "none"]
    ELSE [kind |-> "not_found", endpoint |-> "not_found"]

(***************************************************************************)
(* Responses.                                                              *)
(***************************************************************************)
\* jsonify(payload), status
JsonResponse(status, payload) ==
    [status |-> status, mimetype |-> "application/json", body |-> payload]

HtmlResponse(status, page) ==
    [status |-> status, mimetype |-> "text/html", body |-> page]

\* the response Flask makes for an HTTP error that has no error handler
MethodNotAllowedResponse(req) ==
    [status |-> 405, mimetype |-> "text/html", body |-> "Method Not Allowed",
     allow |-> RuleFor(MergeSlashes(req.path)).methods]

\* the redirect to the path with its slashes merged
RedirectResponse(req) ==
    [status |-> 308, mimetype |-> "text/html", body |-> "Redirecting",
     location |-> MergeSlashes(req.path)]

\* the automatic answer to OPTIONS
OptionsResponse(req) ==
    [status |-> 200, mimetype |-> "text/html", body |-> "",
     allow |-> RuleFor(req.path).methods]

NotFoundPayloadFour ==
    [status |-> "error",
     error |-> "Not found",
     available_endpoints |->
        << [path |-> <<"/">>],
           [path |-> <<"/", "mirror">>],
           [path |-> <<"/", "mirror", "/", "detail">>],
           [path |-> <<"/", "health">>] >>]

\* lines 167-179
NotFoundPayload ==
    [status |-> "error",
     error |-> "Not found",
     available_endpoints |->
        << [path |-> <<"/">>],
           [path |-> <<"/", "mirror">>],
           [path |-> <<"/", "mirror", "/", "detail">>],
           [path |-> <<"/", "health">>],
           [path |-> <<"/", "info">>] >>]

HealthPayload ==
    [status |-> "healthy",
     message |-> "Mirror API is running normally",
     endpoints |-> {"mirror_simple", "mirror_detail", "health", "info", "root"}]

InfoPayload ==
    [version |-> "1.0.0",
     endpoints |-> { <<"/", "mirror">>, <<"/", "mirror", "/", "detail">>,
                     <<"/", "health">>, <<"/", "info">>, <<"/">> }]

(***************************************************************************)
(* The payloads of the two mirror handlers.                                *)
(***************************************************************************)
HeaderOf ==
    [content_type |-> "Content-Type", user_agent |-> "User-Agent",
     authorization |-> "Authorization", accept |-> "Accept", host |-> "Host"]

\* lines 51-78
SimpleData(req) ==
    [status |-> "success",
     endpoint |-> <<"/", "mirror">>,
     request |-> [method |-> req.method,
                  url |-> Url(req),
                  path |-> req.path,
                  query_params |-> MDToDict(Args(req))],
     headers |-> [k \in DOMAIN HeaderOf |-> HeadersGet(req, HeaderOf[k])],
     data_summary |-> [has_json |-> IsJson(req),
                       has_form_data |-> Len(Form(req)) > 0,
                       has_query_params |-> Len(Args(req)) > 0,
                       body_length |-> Len(GetData(req))],
     client |-> [ip_address |-> req.remote_addr]]

\* line 82: the conditional expression binds weaker than "+"
JsonSample(v) ==
    IF Len(PyStr(v)) > SampleLimit
    THEN Take(PyStr(v), SampleLimit) \o <<".", ".", ".">>
    ELSE PyStr(v)

\* lines 79-82
WithSample(req, data) ==
    IF IsJson(req) /\ GetJsonSilent(req).some /\ Truthy(GetJsonSilent(req).v)
    THEN [data EXCEPT !.data_summary =
             @ @@ ("json_sample" :> JsonSample(GetJsonSilent(req).v))]
    ELSE data

\* line 83: keep the headers whose value is truthy
FilterHeadersKeepEmpty(h) ==
    LET keep == {k \in DOMAIN h : h[k].some}
    IN  [k \in keep |-> h[k]]

FilterHeaders(h) ==
    LET keep == {k \in DOMAIN h : h[k].some /\ Len(h[k].v) > 0}
    IN  [k \in keep |-> h[k]]

\* line 111: request.get_json(silent=True) or {}
JsonData(req) ==
    IF GetJsonSilent(req).some /\ Truthy(GetJsonSilent(req).v)
    THEN GetJsonSilent(req).v
    ELSE JObj(<<>>)

StatisticsPerPair(req) ==
    [headers_count |-> Cardinality(HeaderNames(req)),
     query_params_count |-> Len(Args(req)),
     form_fields_count |-> Len(Form(req)),
     cookies_count |-> Len(Cookies(req)),
     body_size_bytes |-> Len(GetData(req)),
     body_size_chars |-> Len(GetData(req))]

\* lines 124-131; the model's text is ASCII, one byte per character
Statistics(req) ==
    [headers_count |-> Cardinality(HeaderNames(req)),
     query_params_count |-> MDLen(Args(req)),
     form_fields_count |-> MDLen(Form(req)),
     cookies_count |-> MDLen(Cookies(req)),
     body_size_bytes |-> Len(GetData(req)),
     body_size_chars |-> Len(GetData(req))]

\* lines 94-132
DetailData(req) ==
    [status |-> "success",
     endpoint |-> <<"/", "mirror", "/", "detail">>,
     request |-> [method |-> req.method,
                  url |-> Url(req),
                  path |-> req.path,
                  full_path |-> FullPath(req),
                  base_url |-> <<"http", "://">> \o Host(req) \o req.path,
                  host |-> Host(req),
                  host_url |-> <<"http", "://">> \o Host(req) \o <<"/">>],
     headers |-> [n \in HeaderNames(req) |-> req.headers[n]],
     query_params |-> MDToDict(Args(req)),
     form_data |-> MDToDict(Form(req)),
     json_data |-> JsonData(req),
     raw_body |-> GetData(req),
     cookies |-> MDToDict(Cookies(req)),
     client |-> [ip_address |-> req.remote_addr,
                 user_agent |-> UserAgentString(req),
                 remote_port |-> req.remote_port],
     server |-> [server_name |-> "0.0.0.0",
                 server_port |-> "5000",
                 request_scheme |-> "http"],
     statistics |-> Statistics(req)]

\* lines 133-137
WithParsedUnguarded(req, data) ==
    IF GetJson(req).raised
    THEN data @@ ("json_error" :> (<<"Invalid JSON data: ">> \o GetJson(req).msg))
    ELSE data @@ ("json_parsed" :> GetJson(req).v)

WithParsedSilent(req, data) ==
    IF IsJson(req)
    THEN IF GetJson(req).raised
         THEN data
         ELSE data @@ ("json_parsed" :> GetJson(req).v)
    ELSE data

WithParsed(req, data) ==
    IF IsJson(req)
    THEN IF GetJson(req).raised
         THEN data @@ ("json_error" :> (<<"Invalid JSON data: ">> \o GetJson(req).msg))
         ELSE data @@ ("json_parsed" :> GetJson(req).v)
    ELSE data

(***************************************************************************)
(* The requests of the model.                                              *)
(***************************************************************************)
Methods == AllMethods \cup {"TRACE"}

Paths ==
    KnownPaths \cup
    { <<"/", "Mirror">>, <<"/", "mirror", "/">>, <<"/", "HEALTH">>,
      <<"/", "mirror", "/", "detail", "/">>, <<"/", "does-not-exist">>,
      <<"/", "mirror", "/", "/", "detail">>, <<"/", "info", "/", "x">> }

MirrorPaths == { <<"/", "mirror">>, <<"/", "mirror", "/", "detail">> }

Quoted(s) == <<"\"">> \o s \o <<"\"">>

\* the JSON text of n zeros separated by commas
Zeros(n) == [i \in 1..(2 * n - 1) |-> IF i % 2 = 1 THEN "0" ELSE ","]

ArrayBody(n) == <<"[">> \o Zeros(n) \o <<"]">>

\* the array of n zeros stringifies to 3n characters
FirstLongArray == (SampleLimit \div 3) + 1

ValidBodies ==
    { <<"{", "}">>, <<"[", "]">>, <<"0">>, <<"7">>, <<"\"", "\"">>,
      <<"f", "a", "l", "s", "e">>, <<"t", "r", "u", "e">>,
      <<"n", "u", "l", "l">>, <<" ", "[", " ", "]", " ">>,
      <<"{", "\"", "a", "\"", ":", "0", "}">>,
      <<"{", "\"", "a", "\"", ":", "[", "1", "0", ",", "n", "u", "l", "l", "]",
        ",", "\"", "b", "\"", ":", "\"", "x", "\"", "}">> }
    \cup {Quoted(Rep("a", n)) : n \in (SampleLimit - 1)..(SampleLimit + 1)}
    \cup {ArrayBody(n) : n \in (FirstLongArray - 1)..(FirstLongArray + ExtraElems)}

InvalidBodies ==
    { <<>>, <<"{", "b">>, <<"[", "0", ",", "]">>, <<"0", "0">>, <<"\"", "a">>,
      <<"{", "}", "x">>, <<"a", "=", "1", "&", "a", "=", "2">> }

Bodies == ValidBodies \cup InvalidBodies

JsonType == <<"application", "/", "json">>

FormType == <<"application", "/", "x-www-form-urlencoded">>

ContentTypes ==
    { JsonType,
      <<"application", "/", "json", ";", " ", "charset=utf-8">>,
      <<"application", "/", "vnd.api", "+", "json">>,
      <<"text", "/", "json">>, <<"text", "/", "plain">>, FormType, <<>> }

\* the texts of at most n key=value pairs joined by sep
RECURSIVE PairTexts(_, _)
PairTexts(sep, n) ==
    IF n = 0 THEN {<<>>}
    ELSE LET shorter == PairTexts(sep, n - 1)
             one == { <<"a", "=", "1">>, <<"a", "=", "2">>, <<"b", "=", "1">> }
         IN  shorter \cup one
             \cup {t \o <<sep>> \o p : t \in shorter \ {<<>>}, p \in one}

\* largest number of key=value pairs in a query string, form body or cookie
MaxPairs == 2

BaseHeaders == ("Host" :> <<"localhost:5000">>) @@ ("User-Agent" :> <<"curl/8.0">>)

Request(method, path, query, headers, body) ==
    [method |-> method, path |-> path, query_string |-> query,
     headers |-> headers, body |-> body,
     remote_addr |-> "127.0.0.1", remote_port |-> "40000"]

WithHeader(h, name, v) == (name :> v) @@ h

\* every method on every path
RoutingRequests ==
    {Request(m, p, <<>>, BaseHeaders, <<>>) : m \in Methods, p \in Paths}

\* every body under every content type, absent included
ContentRequests ==
    {Request("POST", p, <<>>, WithHeader(BaseHeaders, "Content-Type", ct), b) :
        p \in MirrorPaths, ct \in ContentTypes, b \in Bodies}
    \cup {Request("POST", p, <<>>, BaseHeaders, b) : p \in MirrorPaths, b \in Bodies}

\* every method with and without a JSON body
MethodRequests ==
    {Request(m, p, <<"a", "=", "1">>, WithHeader(BaseHeaders, "Content-Type", ct), b) :
        m \in AllMethods, p \in MirrorPaths, ct \in {JsonType, <<"text", "/", "plain">>},
        b \in { <<>>, <<"{", "b">>, <<"{", "\"", "a", "\"", ":", "0", "}">> }}

\* each of the five echoed headers absent, empty or set; one more header
HeaderMaps ==
    { LET h == c1 @@ c2
      IN  [n \in {m \in DOMAIN h : h[m] # <<"absent">>} |-> h[n]]
          @@ ("X-Trace" :> <<"t">>) :
      c1 \in [{"Content-Type"} -> {<<"absent">>, <<>>, JsonType}],
      c2 \in [{"User-Agent", "Authorization", "Accept", "Host"}
                 -> {<<"absent">>, <<>>, <<"v">>}] }

HeaderRequests ==
    {Request("GET", p, <<>>, h, <<>>) : p \in MirrorPaths, h \in HeaderMaps}

\* repeated keys in the query string and the cookies
PairRequests ==
    {Request("GET", p, q, WithHeader(BaseHeaders, "Cookie", c), <<>>) :
        p \in MirrorPaths, q \in PairTexts("&", MaxPairs),
        c \in PairTexts(";", MaxPairs)}

\* repeated fields in an urlencoded body
FormRequests ==
    {Request("POST", p, <<"a", "=", "1">>,
             WithHeader(BaseHeaders, "Content-Type", FormType), f) :
        p \in MirrorPaths, f \in PairTexts("&", MaxPairs)}

Requests ==
    RoutingRequests \cup ContentRequests \cup MethodRequests
    \cup HeaderRequests \cup PairRequests \cup FormRequests

\* the requests that are in flight together in SpecConc: one per handler,
\* and mirror requests that differ in every echoed field
ConcRequests ==
    { Request("GET", <<"/">>, <<>>, BaseHeaders, <<>>),
      Request("GET", <<"/", "info">>, <<>>, BaseHeaders, <<>>),
      Request("GET", <<"/", "health">>, <<>>, BaseHeaders, <<>>),
      Request("POST", <<"/", "health">>, <<>>, BaseHeaders, <<>>),
      Request("OPTIONS", <<"/", "info">>, <<>>, BaseHeaders, <<>>),
      Request("GET", <<"/", "mirror", "/", "/", "detail">>, <<>>, BaseHeaders, <<>>),
      Request("GET", <<"/", "nope">>, <<>>, BaseHeaders, <<>>),
      Request("GET", <<"/", "mirror">>, <<"a", "=", "1">>, BaseHeaders, <<>>),
      Request("POST", <<"/", "mirror">>, <<"b", "=", "1">>,
              WithHeader(WithHeader(BaseHeaders, "Content-Type", JsonType),
                         "Authorization", <<"token">>),
              <<"{", "\"", "a", "\"", ":", "0", "}">>),
      Request("PUT", <<"/", "mirror", "/", "detail">>, <<>>,
              WithHeader(WithHeader(BaseHeaders, "Content-Type", JsonType),
                         "Cookie", <<"a", "=", "1">>),
              <<"[", "0", "]">>),
      Request("POST", <<"/", "mirror", "/", "detail">>, <<"a", "=", "2">>,
              WithHeader(WithHeader(BaseHeaders, "Content-Type", JsonType),
                         "Cookie", <<"b", "=", "1">>),
              <<"{", "b">>) }

(***************************************************************************)
(* The state: one request context per worker.  pc is the worker's position *)
(* (a line of src/app.py inside the mirror handlers), mirror_data the      *)
(* handler's local payload, sent the responses written for the request.    *)
(***************************************************************************)
NoRequest == Request("GET", <<"/">>, <<>>, <<>>, <<>>)

Idle == [pc |-> "idle", request |-> NoRequest, mirror_data |-> <<>>, sent |-> <<>>]

request_shared(w) ==
    ctx[CHOOSE v \in DOMAIN ctx :
           /\ ctx[v].pc \notin {"idle", "done"}
           /\ \A u \in DOMAIN ctx : ctx[u].pc \notin {"idle", "done"} => v <= u].request

\* flask.request inside the handler that worker w runs: the request of w's
\* own context
request(w) == ctx[w].request

Reply(w, resp) ==
    ctx' = [ctx EXCEPT ![w].pc = "done", ![w].sent = Append(@, resp)]

Goto(w, pc) == ctx' = [ctx EXCEPT ![w].pc = pc]

Arrive(w) ==
    /\ ctx[w].pc = "idle"
    /\ \E r \in Requests :
          ctx' = [ctx EXCEPT ![w] = [pc |-> "dispatch", request |-> r,
                                     mirror_data |-> <<>>, sent |-> <<>>]]

ArriveConc(w) ==
    /\ ctx[w].pc = "idle"
    /\ \E r \in ConcRequests :
          ctx' = [ctx EXCEPT ![w] = [pc |-> "dispatch", request |-> r,
                                     mirror_data |-> <<>>, sent |-> <<>>]]

\* Flask matches the request and calls the view function, the 404 handler,
\* or answers itself
Dispatch(w) ==
    /\ ctx[w].pc = "dispatch"
    /\ LET m == Match(ctx[w].request)
       IN  CASE m.kind = "view" -> Goto(w, m.endpoint)
             [] m.kind = "not_found" -> Goto(w, "not_found")
             [] m.kind = "options" -> Reply(w, OptionsResponse(ctx[w].request))
             [] m.kind = "redirect" -> Reply(w, RedirectResponse(ctx[w].request))
             [] m.kind = "method_not_allowed" ->
                    Reply(w, MethodNotAllowedResponse(ctx[w].request))

\* lines 13-19
api_documentation(w) ==
    /\ ctx[w].pc = "api_documentation"
    /\ Reply(w, HtmlResponse(200, "index.html"))

\* lines 23-41
api_info(w) ==
    /\ ctx[w].pc = "api_info"
    /\ Reply(w, JsonResponse(200, InfoPayload))

\* lines 142-158
health_check(w) ==
    /\ ctx[w].pc = "health_check"
    /\ Reply(w, JsonResponse(200, HealthPayload))

\* lines 162-180
not_found(w) ==
    /\ ctx[w].pc = "not_found"
    /\ Reply(w, JsonResponse(404, NotFoundPayload))

\* lines 50-78
mirror_simple_build(w) ==
    /\ ctx[w].pc = "mirror_simple"
    /\ ctx' = [ctx EXCEPT ![w].pc = "mirror_simple_79",
                          ![w].mirror_data = SimpleData(request(w))]

\* lines 79-82
mirror_simple_sample(w) ==
    /\ ctx[w].pc = "mirror_simple_79"
    /\ ctx' = [ctx EXCEPT ![w].pc = "mirror_simple_83",
                          ![w].mirror_data = WithSample(request(w), @)]

\* line 83
mirror_simple_filter(w) ==
    /\ ctx[w].pc = "mirror_simple_83"
    /\ ctx' = [ctx EXCEPT ![w].pc = "mirror_simple_84",
                          ![w].mirror_data.headers = FilterHeaders(@)]

\* line 84
mirror_simple_return(w) ==
    /\ ctx[w].pc = "mirror_simple_84"
    /\ Reply(w, JsonResponse(200, ctx[w].mirror_data))

\* lines 93-132
mirror_detail_build(w) ==
    /\ ctx[w].pc = "mirror_detail"
    /\ ctx' = [ctx EXCEPT ![w].pc = "mirror_detail_133",
                          ![w].mirror_data = DetailData(request(w))]

\* lines 133-137
mirror_detail_parse(w) ==
    /\ ctx[w].pc = "mirror_detail_133"
    /\ ctx' = [ctx EXCEPT ![w].pc = "mirror_detail_138",
                          ![w].mirror_data = WithParsed(request(w), @)]

\* line 138
mirror_detail_return(w) ==
    /\ ctx[w].pc = "mirror_detail_138"
    /\ Reply(w, JsonResponse(200, ctx[w].mirror_data))

\* the response is on the wire; the request context is discarded
Close(w) ==
    /\ ctx[w].pc = "done"
    /\ ctx' = [ctx EXCEPT ![w] = Idle]

Handle(w) ==
    \/ Dispatch(w)
    \/ api_documentation(w)
    \/ api_info(w)
    \/ health_check(w)
    \/ not_found(w)
    \/ mirror_simple_build(w)
    \/ mirror_simple_sample(w)
    \/ mirror_simple_filter(w)
    \/ mirror_simple_return(w)
    \/ mirror_detail_build(w)
    \/ mirror_detail_parse(w)
    \/ mirror_detail_return(w)
    \/ Close(w)

\* one worker, every request of the model
Init == ctx = [w \in {1} |-> Idle]

Next == \E w \in {1} : Arrive(w) \/ Handle(w)

Spec == Init /\ [][Next]_vars

\* NumWorkers workers handling requests at the same time
Workers == 1..NumWorkers

InitConc == ctx = [w \in Workers |-> Idle]

NextConc == \E w \in Workers : ArriveConc(w) \/ Handle(w)

SpecConc == InitConc /\ [][NextConc]_vars

(***************************************************************************)
(* Properties.                                                             *)
(***************************************************************************)
Done(w) == ctx[w].pc = "done"

Resp(w) == ctx[w].sent[1]

Req(w) == ctx[w].request

\* the response was built by the handler of this mirror path
MirrorResponse(w, path) ==
    /\ Done(w)
    /\ Req(w).path = path
    /\ Req(w).method \in AllMethods

SimplePath == <<"/", "mirror">>

DetailPath == <<"/", "mirror", "/", "detail">>

JsonNotFound(resp) ==
    /\ resp.status = 404
    /\ resp.mimetype = "application/json"
    /\ resp.body.status = "error"
    /\ resp.body.error = "Not found"
    /\ Len(resp.body.available_endpoints) = Cardinality(KnownPaths)
    /\ {resp.body.available_endpoints[i].path :
            i \in 1..Len(resp.body.available_endpoints)} = KnownPaths

C3_MalformedJson ==
    \A w \in DOMAIN ctx :
        \A p \in MirrorPaths :
            (MirrorResponse(w, p) /\ IsJson(Req(w)) /\ ~JsonLoads(Req(w).body).ok)
            => /\ Resp(w).status = 200
               /\ p = DetailPath =>
                     /\ "json_error" \in DOMAIN Resp(w).body
                     /\ Len(Resp(w).body.json_error) > 0
                     /\ "json_parsed" \notin DOMAIN Resp(w).body
               /\ p = SimplePath =>
                     "json_sample" \notin DOMAIN Resp(w).body.data_summary

C3_Witness ==
    \E w \in DOMAIN ctx :
        /\ MirrorResponse(w, DetailPath)
        /\ IsJson(Req(w))
        /\ Req(w).body = <<"{", "b">>
        /\ "json_error" \in DOMAIN Resp(w).body

ExpectedSample(text) ==
    IF Len(text) <= SampleLimit THEN text
    ELSE SubSeq(text, 1, SampleLimit) \o <<".", ".", ".">>

\* C5: on /mirror, a JSON content type with a body that parses always
\* yields json_sample: the stringified value when it has at most 100
\* characters, its first 100 characters and "..." otherwise
C5_JsonSample ==
    \A w \in DOMAIN ctx :
        (MirrorResponse(w, SimplePath) /\ IsJson(Req(w)) /\ JsonLoads(Req(w).body).ok)
        => /\ "json_sample" \in DOMAIN Resp(w).body.data_summary
           /\ Resp(w).body.data_summary.json_sample
                 = ExpectedSample(PyStr(JsonLoads(Req(w).body).v))

\* C6: the headers object of /mirror has exactly the keys among the five
\* whose header was sent with a non-empty value, each with that value
C6_HeadersFiltered ==
    \A w \in DOMAIN ctx :
        MirrorResponse(w, SimplePath)
        => /\ DOMAIN Resp(w).body.headers =
                 {k \in DOMAIN HeaderOf :
                     /\ HeaderOf[k] \in DOMAIN Req(w).headers
                     /\ Req(w).headers[HeaderOf[k]] # <<>>}
           /\ \A k \in DOMAIN Resp(w).body.headers :
                 /\ Resp(w).body.headers[k].some
                 /\ Resp(w).body.headers[k].v = Req(w).headers[HeaderOf[k]]

C6_Witness ==
    \E w \in DOMAIN ctx :
        /\ MirrorResponse(w, SimplePath)
        /\ "Accept" \notin DOMAIN Req(w).headers
        /\ "Authorization" \in DOMAIN Req(w).headers
        /\ Req(w).headers["Authorization"] = <<>>
        /\ "X-Trace" \in DOMAIN Req(w).headers
        /\ DOMAIN Resp(w).body.headers = {"user_agent", "host"}

\* C7: on /mirror/detail, json_data is the parsed body whenever the content
\* type is JSON and the body parses, and then equals json_parsed; it is the
\* empty mapping only when the content type is not JSON or the body does
\* not parse
C7_JsonData ==
    \A w \in DOMAIN ctx :
        MirrorResponse(w, DetailPath)
        => IF IsJson(Req(w)) /\ JsonLoads(Req(w).body).ok
           THEN /\ Resp(w).body.json_data = JsonLoads(Req(w).body).v
                /\ "json_parsed" \in DOMAIN Resp(w).body
                /\ Resp(w).body.json_data = Resp(w).body.json_parsed
           ELSE Resp(w).body.json_data = JObj(<<>>)

InHandler(w) ==
    ctx[w].pc \in {"mirror_simple_79", "mirror_simple_83", "mirror_simple_84",
                   "mirror_detail_133", "mirror_detail_138"}

\* C8: with several workers, in every interleaving, a request has one
\* response once it is handled and none before, and the request-derived
\* fields of a mirror payload, while it is built and when it is sent, are
\* those of the worker's own request
C8_OwnRequest ==
    \A w \in DOMAIN ctx :
        /\ Len(ctx[w].sent) = (IF Done(w) THEN 1 ELSE 0)
        /\ InHandler(w) =>
              /\ ctx[w].mirror_data.request.method = Req(w).method
              /\ ctx[w].mirror_data.request.path = Req(w).path
              /\ ctx[w].mirror_data.request.url = Url(Req(w))
        /\ MirrorResponse(w, SimplePath) =>
              LET b == Resp(w).body
              IN  /\ b.request.method = Req(w).method
                  /\ b.request.path = Req(w).path
                  /\ b.request.query_params = MDToDict(Args(Req(w)))
                  /\ \A k \in DOMAIN b.headers :
                        b.headers[k].v = Req(w).headers[HeaderOf[k]]
                  /\ "authorization" \in DOMAIN b.headers
                        <=> "Authorization" \in DOMAIN Req(w).headers
                  /\ b.data_summary.body_length = Len(Req(w).body)
                  /\ b.data_summary.has_json = IsJson(Req(w))
        /\ MirrorResponse(w, DetailPath) =>
              LET b == Resp(w).body
              IN  /\ b.request.method = Req(w).method
                  /\ b.request.path = Req(w).path
                  /\ b.query_params = MDToDict(Args(Req(w)))
                  /\ b.headers = Req(w).headers
                  /\ b.raw_body = Req(w).body
                  /\ b.cookies = MDToDict(Cookies(Req(w)))
                  /\ "json_error" \in DOMAIN b <=> ~JsonLoads(Req(w).body).ok

C8_Witness ==
    \E w1, w2 \in DOMAIN ctx :
        /\ w1 # w2
        /\ MirrorResponse(w1, DetailPath)
        /\ ctx[w2].pc = "mirror_simple_83"
        /\ Req(w2).method # Req(w1).method
        /\ Req(w2).query_string # Req(w1).query_string
        /\ Resp(w1).body.request.method = Req(w1).method

\* C9: in a /mirror/detail response json_parsed and json_error are never
\* both present; with a JSON content type exactly one is (json_parsed when
\* the body parses, json_error when it does not), otherwise neither
C9_ParsedXorError ==
    \A w \in DOMAIN ctx :
        MirrorResponse(w, DetailPath)
        => LET hasParsed == "json_parsed" \in DOMAIN Resp(w).body
               hasError == "json_error" \in DOMAIN Resp(w).body
           IN  /\ ~(hasParsed /\ hasError)
               /\ IsJson(Req(w)) => /\ hasParsed <=> JsonLoads(Req(w).body).ok
                                    /\ hasError <=> ~JsonLoads(Req(w).body).ok
               /\ ~IsJson(Req(w)) => ~hasParsed /\ ~hasError

C9_Witness ==
    \E w \in DOMAIN ctx :
        /\ MirrorResponse(w, DetailPath)
        /\ ~IsJson(Req(w))
        /\ JsonLoads(Req(w).body).ok
        /\ "json_parsed" \notin DOMAIN Resp(w).body

\* C10: the statistics of a /mirror/detail response count the entries of
\* the mappings echoed in the same response, and body_size_chars is the
\* length of raw_body
C10_StatisticsAgree ==
    \A w \in DOMAIN ctx :
        MirrorResponse(w, DetailPath)
        => LET b == Resp(w).body
           IN  /\ b.statistics.headers_count = Cardinality(DOMAIN b.headers)
               /\ b.statistics.query_params_count = Cardinality(DOMAIN b.query_params)
               /\ b.statistics.form_fields_count = Cardinality(DOMAIN b.form_data)
               /\ b.statistics.cookies_count = Cardinality(DOMAIN b.cookies)
               /\ b.statistics.body_size_chars = Len(b.raw_body)

C10_Witness ==
    \E w \in DOMAIN ctx :
        /\ MirrorResponse(w, DetailPath)
        /\ Req(w).query_string = <<"a", "=", "1", "&", "a", "=", "2">>
        /\ "Cookie" \in DOMAIN Req(w).headers
        /\ Req(w).headers["Cookie"] = <<"b", "=", "1", ";", "b", "=", "1">>
        /\ Resp(w).body.statistics.query_params_count = 1
        /\ Resp(w).body.statistics.cookies_count = 1
====
